---- MODULE Spec2Model ----
(***************************************************************************)
(* Model of rest_access_policy.AccessPolicy (access_policy.py): the        *)
(* statement evaluation pipeline                                           *)
(*   _normalize_statements -> _get_statements_matching_principal           *)
(*   -> _get_statements_matching_action                                    *)
(*   -> _get_statements_matching_context_conditions -> effect resolution.  *)
(*                                                                         *)
(* Python values are records [t, s, l]: t is the Python type ("str",       *)
(* "list") or "absent" for a key that is not in the dict, s the text of a  *)
(* str, l the elements of a list (themselves such records).                *)
(***************************************************************************)
EXTENDS Integers, Sequences, FiniteSets, TLC

VARIABLES
    statements,   \* the statement list object every call works on (AccessPolicy.statements)
    raw,          \* the statement records as the caller wrote them, before any call
    policy,       \* the attributes of the policy class: name -> attribute
    th            \* the calls in progress: call id -> frame (pc, arguments, locals, result)

vars == <<statements, raw, policy, th>>

-----------------------------------------------------------------------------
(* Bounds of the model                                                     *)

MaxStatements == 2
MaxPatterns == 2
MaxConditions == 2

-----------------------------------------------------------------------------
(* Python values                                                           *)

Str(s) == [t |-> "str", s |-> s, l |-> <<>>]
List(l) == [t |-> "list", s |-> "", l |-> l]
Absent == [t |-> "absent", s |-> "", l |-> <<>>]

StrList(ss) == List([i \in 1..Len(ss) |-> Str(ss[i])])

\* isinstance(v, str)
IsStr(v) == v.t = "str"

\* len(v) of a list or a str
PyLen(v) == IF v.t = "list" THEN Len(v.l) ELSE Len(v.s)

\* x in c, for a str x: an element of a list equal to x, or a substring of a str
PyIn(x, c) ==
    IF c.t = "list"
    THEN \E i \in 1..Len(c.l) : c.l[i].t = "str" /\ c.l[i].s = x
    ELSE c.t = "str"
         /\ \E i \in 1..(Len(c.s) + 1) : \E j \in (i - 1)..Len(c.s) : SubSeq(c.s, i, j) = x

\* the index of the first occurrence of the one-character string ch in s, 0 if none
FirstIndex(s, ch) ==
    IF \E i \in 1..Len(s) : SubSeq(s, i, i) = ch
    THEN CHOOSE i \in 1..Len(s) :
            /\ SubSeq(s, i, i) = ch
            /\ \A j \in 1..(i - 1) : SubSeq(s, j, j) # ch
    ELSE 0

\* the pieces of s around position k (the whole of s when k = 0)
SplitAt(s, k) ==
    IF k = 0 THEN <<s>> ELSE <<SubSeq(s, 1, k - 1), SubSeq(s, k + 1, Len(s))>>

\* s.split(ch, 1)
Split1(s, ch) == SplitAt(s, FirstIndex(s, ch))

\* s.split(ch)
RECURSIVE SplitAll(_, _)
SplitAll(s, ch) ==
    IF FirstIndex(s, ch) = 0 THEN <<s>>
    ELSE <<SplitAt(s, FirstIndex(s, ch))[1]>> \o SplitAll(SplitAt(s, FirstIndex(s, ch))[2], ch)

Digit(d) == SubSeq("0123456789", d + 1, d + 1)

\* str(n) for an int n >= 0
RECURSIVE IntToStr(_)
IntToStr(n) == IF n < 10 THEN Digit(n) ELSE IntToStr(n \div 10) \o Digit(n % 10)

-----------------------------------------------------------------------------
(* Class attributes                                                        *)

group_prefix == "group:"
id_prefix == "id:"
SAFE_METHODS == {"GET", "HEAD", "OPTIONS"}

-----------------------------------------------------------------------------
(* 4.1 Statement normalizer                                                *)

\* lines 64-65 and 67-68: a bare str becomes a one-element list
NormalizeField(v) == IF IsStr(v) THEN List(<<v>>) ELSE v

\* lines 70-73: an absent condition becomes [], a bare str a one-element list
NormalizeCondition(v) ==
    IF v.t = "absent" THEN List(<<>>)
    ELSE IF IsStr(v) THEN List(<<v>>)
    ELSE v

\* the loop body: the three item assignments on one statement dict
NormalizeStatement(st) ==
    [st EXCEPT !.principal = NormalizeField(st.principal),
               !.action = NormalizeField(st.action),
               !.condition = NormalizeCondition(st.condition)]

\* the dicts of the list after the loop; the list returned is the argument itself
_normalize_statements(sts) == [i \in 1..Len(sts) |-> NormalizeStatement(sts[i])]

-----------------------------------------------------------------------------
(* 4.2 Principal matcher                                                   *)

\* lines 81-84: user.oidc_user.sub when the user has one, else user.id
UserId(user) ==
    IF user.oidc # <<>> THEN [t |-> "str", s |-> user.oidc[1].sub, n |-> 0]
    ELSE IF user.id = <<>> THEN [t |-> "none", s |-> "", n |-> 0]
    ELSE [t |-> "int", s |-> "", n |-> user.id[1]]

\* str(user_id)
PyStr(v) ==
    IF v.t = "str" THEN v.s
    ELSE IF v.t = "none" THEN "None"
    ELSE IntToStr(v.n)

get_user_group_values(user) ==
    IF user.oidc # <<>> THEN SplitAll(user.oidc[1].groups, " ") ELSE user.groups

\* PrincipalFound with every pattern tried, none taking precedence
PrincipalFoundAnyPattern(user, principals) ==
    \/ PyIn("*", principals)
    \/ PyIn("authenticated", principals) /\ ~user.is_anonymous
    \/ PyIn("anonymous", principals) /\ user.is_anonymous
    \/ PyIn(id_prefix \o PyStr(UserId(user)), principals)
    \/ \E k \in 1..Len(get_user_group_values(user)) :
          PyIn(group_prefix \o get_user_group_values(user)[k], principals)

\* lines 89-104: found, for one statement's principals
PrincipalFound(user, principals) ==
    IF PyIn("*", principals) THEN TRUE
    ELSE IF PyIn("authenticated", principals) THEN ~user.is_anonymous
    ELSE IF PyIn("anonymous", principals) THEN user.is_anonymous
    ELSE IF PyIn(id_prefix \o PyStr(UserId(user)), principals) THEN TRUE
    ELSE LET user_roles == get_user_group_values(user)
         IN  \E k \in 1..Len(user_roles) : PyIn(group_prefix \o user_roles[k], principals)

\* PrincipalLoop with matched.insert(0, statement) for matched.append(statement)
RECURSIVE PrincipalLoopPrepending(_, _, _, _)
PrincipalLoopPrepending(user, sts, i, matched) ==
    IF i > Len(sts) THEN matched
    ELSE PrincipalLoopPrepending(user, sts, i + 1,
            IF PrincipalFound(user, sts[i].principal) THEN <<sts[i]>> \o matched ELSE matched)

\* the loop of lines 88-107 from statement i on, matched being the list built so far
RECURSIVE PrincipalLoop(_, _, _, _)
PrincipalLoop(user, sts, i, matched) ==
    IF i > Len(sts) THEN matched
    ELSE PrincipalLoop(user, sts, i + 1,
            IF PrincipalFound(user, sts[i].principal) THEN Append(matched, sts[i]) ELSE matched)

_get_statements_matching_principal(request, sts) == PrincipalLoop(request.user, sts, 1, <<>>)

-----------------------------------------------------------------------------
(* 4.3 Action matcher                                                      *)

\* ActionFound with the safe-methods branch tried only when the action is unknown
\* to every statement pattern and the method test left out
ActionFoundAnyMethod(request, action, st) ==
    IF PyIn(action, st.action) \/ PyIn("*", st.action) THEN TRUE
    ELSE PyIn("<safe_methods>", st.action)

\* lines 122-128: whether one statement is appended
ActionFound(request, action, st) ==
    IF PyIn(action, st.action) \/ PyIn("*", st.action) THEN TRUE
    ELSE PyIn("<safe_methods>", st.action) /\ request.method \in SAFE_METHODS

RECURSIVE ActionLoop(_, _, _, _, _)
ActionLoop(request, action, sts, i, matched) ==
    IF i > Len(sts) THEN matched
    ELSE ActionLoop(request, action, sts, i + 1,
            IF ActionFound(request, action, sts[i]) THEN Append(matched, sts[i]) ELSE matched)

_get_statements_matching_action(request, action, sts) == ActionLoop(request, action, sts, 1, <<>>)

-----------------------------------------------------------------------------
(* 4.4 Condition evaluator                                                 *)

\* The attributes a policy class can carry.  A method is described by what it
\* does when called: whether it takes the extra argument, and what it returns.
Method(takes_arg, returns) == [callable |-> TRUE, takes_arg |-> takes_arg, returns |-> returns]
DataAttribute == [callable |-> FALSE, takes_arg |-> FALSE, returns |-> ""]

\* class AccessPolicy, lines 8-11: attributes that are not methods
BaseAttributes ==
    [statements |-> DataAttribute, id |-> DataAttribute,
     group_prefix |-> DataAttribute, id_prefix |-> DataAttribute]

\* for iteration: the elements of a list, the characters of a str
PyIter(v) == IF v.t = "list" THEN v.l ELSE [i \in 1..Len(v.s) |-> Str(SubSeq(v.s, i, i))]

\* the value method(request, view, action[, arg]) returns: [t, b], b the value of a bool
MethodResult(attr, arg) ==
    IF attr.returns = "True" THEN [t |-> "bool", b |-> TRUE]
    ELSE IF attr.returns = "False" THEN [t |-> "bool", b |-> FALSE]
    ELSE IF attr.returns = "arg_is_owner" THEN [t |-> "bool", b |-> (arg = <<"owner">>)]
    ELSE [t |-> "str", b |-> FALSE]

\* What _check_condition does: exc is the exception raised ("" if none), called
\* whether the predicate's body ran, ret the bool returned when nothing was raised.
Outcome(exc, called, ret, method_name, arg) ==
    [exc |-> exc, called |-> called, ret |-> ret, name |-> method_name, arg |-> arg]

\* lines 179-190: the call of the method found, and the check of what it returns
CallMethod(method, method_name, arg) ==
    IF ~method.callable \/ method.takes_arg # (arg # <<>>)
    THEN Outcome("TypeError", FALSE, FALSE, method_name, arg)
    ELSE IF MethodResult(method, arg).t # "bool"
    THEN Outcome("AccessPolicyException", TRUE, FALSE, method_name, arg)
    ELSE Outcome("", TRUE, MethodResult(method, arg).b, method_name, arg)

\* LookupMethod as the docstring of _check_condition has it: "if method does not
\* exist on the access policy class, then return False"
LookupMethodReturnsFalse(self, method_name, arg) ==
    IF method_name \notin DOMAIN self
    THEN Outcome("", FALSE, FALSE, method_name, arg)
    ELSE IF MethodResult(self[method_name], arg).t # "bool" /\ self[method_name].callable
    THEN Outcome("", TRUE, FALSE, method_name, arg)
    ELSE CallMethod(self[method_name], method_name, arg)

\* lines 172-177: hasattr(self, method_name), getattr(self, method_name)
LookupMethod(self, method_name, arg) ==
    IF method_name \notin DOMAIN self
    THEN Outcome("AccessPolicyException", FALSE, FALSE, method_name, arg)
    ELSE CallMethod(self[method_name], method_name, arg)

\* lines 169-170: method_name = parts[0]; arg = parts[1] if len(parts) == 2 else None
CheckParts(self, parts) ==
    LookupMethod(self, parts[1], IF Len(parts) = 2 THEN <<parts[2]>> ELSE <<>>)

\* line 168 on: a list has no split
_check_condition(self, condition) ==
    IF ~IsStr(condition)
    THEN Outcome("AttributeError", FALSE, FALSE, "", <<>>)
    ELSE CheckParts(self, Split1(condition.s, ":"))

\* ConditionLoop without the break of line 154: every condition is evaluated
RECURSIVE ConditionLoopNoBreak(_, _, _, _, _)
ConditionLoopNoBreak(self, conds, k, j, calls) ==
    IF j > Len(conds) THEN [keep |-> TRUE, calls |-> calls, exc |-> ""]
    ELSE LET r == _check_condition(self, conds[j])
             calls2 == IF r.called
                       THEN Append(calls, [stmt |-> k, cond |-> j, name |-> r.name,
                                           arg |-> r.arg, exc |-> r.exc, ret |-> r.ret])
                       ELSE calls
             rest == ConditionLoopNoBreak(self, conds, k, j + 1, calls2)
         IN  IF r.exc # "" THEN [keep |-> FALSE, calls |-> calls2, exc |-> r.exc]
             ELSE [keep |-> r.ret /\ rest.keep, calls |-> rest.calls, exc |-> rest.exc]

\* the inner loop of lines 149-154 over the conditions of statement k, from
\* condition j on; calls is the log of the predicate calls made so far
RECURSIVE ConditionLoop(_, _, _, _, _)
ConditionLoop(self, conds, k, j, calls) ==
    IF j > Len(conds) THEN [keep |-> TRUE, calls |-> calls, exc |-> ""]
    ELSE LET r == _check_condition(self, conds[j])
             calls2 == IF r.called
                       THEN Append(calls, [stmt |-> k, cond |-> j, name |-> r.name,
                                           arg |-> r.arg, exc |-> r.exc, ret |-> r.ret])
                       ELSE calls
         IN  IF r.exc # "" THEN [keep |-> FALSE, calls |-> calls2, exc |-> r.exc]
             ELSE IF ~r.ret THEN [keep |-> FALSE, calls |-> calls2, exc |-> ""]
             ELSE ConditionLoop(self, conds, k, j + 1, calls2)

\* lines 143-157 for statement k: whether it is appended
ConditionStatement(self, st, k, calls) ==
    IF st.condition.t = "absent" THEN [keep |-> FALSE, calls |-> calls, exc |-> "KeyError"]
    ELSE IF PyLen(st.condition) = 0 THEN [keep |-> TRUE, calls |-> calls, exc |-> ""]
    ELSE ConditionLoop(self, PyIter(st.condition), k, 1, calls)

\* the loop of lines 142-157 from statement k on
RECURSIVE StatementLoop(_, _, _, _)
StatementLoop(self, sts, k, acc) ==
    IF k > Len(sts) \/ acc.exc # "" THEN acc
    ELSE LET r == ConditionStatement(self, sts[k], k, acc.calls)
         IN  StatementLoop(self, sts, k + 1,
                [matched |-> IF r.keep THEN Append(acc.matched, sts[k]) ELSE acc.matched,
                 calls |-> r.calls,
                 exc |-> r.exc])

_get_statements_matching_context_conditions(self, sts) ==
    StatementLoop(self, sts, 1, [matched |-> <<>>, calls |-> <<>>, exc |-> ""])

-----------------------------------------------------------------------------
(* 4.5 Decision resolver and 4.6 entry point                               *)

\* Resolve deciding by the first matched statement alone
ResolveFirstMatchWins(matched) ==
    IF Len(matched) = 0 \/ matched[1].effect # "allow" THEN "False" ELSE "True"

\* Resolve without the test for an empty list
ResolveWithoutEmptyTest(matched) ==
    IF Len(SelectSeq(matched, LAMBDA st : st.effect # "allow")) > 0 THEN "False" ELSE "True"

\* lines 55-60
Resolve(matched) ==
    LET denied == SelectSeq(matched, LAMBDA st : st.effect # "allow")
    IN  IF Len(matched) = 0 \/ Len(denied) > 0 THEN "False" ELSE "True"

\* lines 47-53: the three filters over the normalized list
Filter(self, sts, request, action) ==
    _get_statements_matching_context_conditions(self,
        _get_statements_matching_action(request, action,
            _get_statements_matching_principal(request, _normalize_statements(sts))))

\* _evaluate_statements with denied taken from all statements, not the matched ones
EvaluateDeniedOverAll(self, sts, request, action) ==
    [statements |-> _normalize_statements(sts),
     matched |-> Filter(self, sts, request, action).matched,
     calls |-> Filter(self, sts, request, action).calls,
     result |-> IF Filter(self, sts, request, action).exc # ""
                THEN Filter(self, sts, request, action).exc
                ELSE IF \E i \in 1..Len(sts) : sts[i].effect # "allow" THEN "False"
                ELSE Resolve(Filter(self, sts, request, action).matched)]

\* lines 47-60.  statements: the argument list's dicts when the call ends
\* (line 47 rebinds the name to the very list it was given); result: "True",
\* "False", or the name of the exception that ends the call
_evaluate_statements(self, sts, request, action) ==
    LET filtered == Filter(self, sts, request, action)
    IN  [statements |-> _normalize_statements(sts),
         matched |-> filtered.matched,
         calls |-> filtered.calls,
         result |-> IF filtered.exc # "" THEN filtered.exc ELSE Resolve(filtered.matched)]

\* lines 38-41: view.action if the view has one, else the name of its class
_get_invoked_action(view) == IF view.action # <<>> THEN view.action[1] ELSE view.cls

\* lines 21-22
get_policy_statements(sts) == sts

\* lines 14-19
has_permission(self, sts, request, view) ==
    LET action == _get_invoked_action(view)
        stmts == get_policy_statements(sts)
    IN  IF Len(stmts) = 0
        THEN [statements |-> stmts, matched |-> <<>>, calls |-> <<>>, result |-> "False"]
        ELSE _evaluate_statements(self, stmts, request, action)

-----------------------------------------------------------------------------
(* Inputs                                                                  *)

\* sequences over S of length lo..hi
SeqsOf(S, lo, hi) == UNION {[1..n -> S] : n \in lo..hi}

\* request.user: django's AnonymousUser, two stored users, a user of an OIDC provider
AnonymousUser ==
    [is_anonymous |-> TRUE, id |-> <<>>, groups |-> <<>>, oidc |-> <<>>]
User5 ==
    [is_anonymous |-> FALSE, id |-> <<5>>, groups |-> <<"cooks">>, oidc |-> <<>>]
User79 ==
    [is_anonymous |-> FALSE, id |-> <<79>>, groups |-> <<"admin", "dev">>, oidc |-> <<>>]
OidcUser ==
    [is_anonymous |-> FALSE, id |-> <<7>>, groups |-> <<>>,
     oidc |-> <<[sub |-> "u7", groups |-> "cooks dev"]>>]

FakeRequest(user, method) == [user |-> user, method |-> method]

\* a viewset, which has .action, and a function view, which has only its class
FakeViewSet(action) == [action |-> <<action>>, cls |-> "FakeViewSet"]
FunctionView(name) == [action |-> <<>>, cls |-> name]

\* the policy classes of the tests: predicates returning True, False, a bool
\* computed from the argument, and a str
TestPolicy ==
    BaseAttributes @@
    [is_sunny |-> Method(FALSE, "True"),
     is_cloudy |-> Method(FALSE, "False"),
     user_is |-> Method(TRUE, "arg_is_owner")]
YupPolicy ==
    BaseAttributes @@
    [is_sunny |-> Method(FALSE, "yup")]

Statement(principal, action, condition, effect) ==
    [principal |-> principal, action |-> action, condition |-> condition, effect |-> effect]

-----------------------------------------------------------------------------
(* Calls                                                                   *)

\* the frame of a call that has not started
Frame(request, view) ==
    [pc |-> "start", op |-> "", request |-> request, view |-> view, action |-> "",
     i |-> 0, field |-> "", tmp |-> Absent, inp |-> <<>>, refs |-> <<>>,
     matched |-> <<>>, calls |-> <<>>, result |-> ""]

\* the frame of a call that has returned (or raised) out
Returned(f, op, action, out) ==
    [f EXCEPT !.pc = "done", !.op = op, !.action = action,
              !.matched = out.matched, !.calls = out.calls, !.result = out.result]

-----------------------------------------------------------------------------
(* Spec: one caller evaluating whole policies                              *)

PolicyPrincipals == {Str("group:cooks"), StrList(<<"anonymous", "id:5">>)}
PolicyActions == {Str("create"), StrList(<<"<safe_methods>">>)}
PolicyConditions == {Absent, Str("is_sunny"), StrList(<<"is_cloudy", "is_sunny">>)}
PolicyStatements ==
    {Statement(p, a, c, e) : p \in PolicyPrincipals, a \in PolicyActions,
                             c \in PolicyConditions, e \in {"allow", "deny"}}
Requests == {FakeRequest(AnonymousUser, "POST"), FakeRequest(User5, "GET")}
Views == {FakeViewSet("create"), FunctionView("list_view")}
ActionNames == {"create", "list_view"}

Init ==
    /\ statements \in SeqsOf(PolicyStatements, 0, MaxStatements)
    /\ raw = statements
    /\ policy \in {TestPolicy, YupPolicy}
    /\ th \in [{1} -> {Frame(r, v) : r \in Requests, v \in Views}]

\* policy.has_permission(request, view), the policy's list being the class attribute
HasPermission(c) ==
    /\ th[c].pc = "start"
    /\ LET out == has_permission(policy, statements, th[c].request, th[c].view)
       IN  /\ statements' = out.statements
           /\ th' = [th EXCEPT ![c] = Returned(@, "has_permission",
                                               _get_invoked_action(th[c].view), out)]
    /\ UNCHANGED <<raw, policy>>

\* policy._evaluate_statements(statements, request, view, action), called directly
EvaluateStatements(c) ==
    /\ th[c].pc = "start"
    /\ \E action \in ActionNames :
        LET out == _evaluate_statements(policy, statements, th[c].request, action)
        IN  /\ statements' = out.statements
            /\ th' = [th EXCEPT ![c] = Returned(@, "_evaluate_statements", action, out)]
    /\ UNCHANGED <<raw, policy>>

\* the request is made again: another call on the same policy
NextRequest(c) ==
    /\ th[c].pc = "done"
    /\ th' = [th EXCEPT ![c] = Frame(th[c].request, th[c].view)]
    /\ UNCHANGED <<statements, raw, policy>>

Next ==
    \/ \E c \in DOMAIN th : HasPermission(c)
    \/ \E c \in DOMAIN th : EvaluateStatements(c)
    \/ \E c \in DOMAIN th : NextRequest(c)

Spec == Init /\ [][Next]_vars

-----------------------------------------------------------------------------
(* What the claims speak of, per statement                                 *)

Done(c) == th[c].pc = "done"

\* statement i of the list a call was given, in the shape the matchers see
Arg(i) == NormalizeStatement(raw[i])
Conds(st) == st.condition.l

CondOutcome(cond) == _check_condition(policy, cond)
CondTrue(cond) == CondOutcome(cond).exc = "" /\ CondOutcome(cond).ret

\* the statement passes the principal and the action filter of call c
PassesPA(c, st) ==
    /\ PrincipalFound(th[c].request.user, st.principal)
    /\ ActionFound(th[c].request, th[c].action, st)

\* conditions 1..j-1 of the statement hold
TrueBefore(st, j) == \A k \in 1..(j - 1) : CondTrue(Conds(st)[k])

\* the statement passes all three filters
Passes(c, st) == PassesPA(c, st) /\ TrueBefore(st, Len(Conds(st)) + 1)

\* evaluating the statement raises: a condition reached in list order raises
Raises(c, st) ==
    /\ PassesPA(c, st)
    /\ \E j \in 1..Len(Conds(st)) : TrueBefore(st, j) /\ CondOutcome(Conds(st)[j]).exc # ""

\* no statement of the list raises, so that the three filters return
FiltersReturn(c) == \A i \in 1..Len(raw) : ~Raises(c, Arg(i))

-----------------------------------------------------------------------------
(* C1-C4, C9: the whole evaluation                                         *)

\* C1: deny overrides allow.  When a statement that passes the principal, action
\* and condition filters has effect deny, the call never returns allow, and it
\* returns deny whenever the filters return (no condition raises), wherever the
\* deny statement sits and however many allow statements pass too.
C1_DenyOverridesAllow ==
    \A c \in DOMAIN th :
        (Done(c) /\ \E i \in 1..Len(raw) : Passes(c, Arg(i)) /\ Arg(i).effect = "deny")
        => /\ th[c].result # "True"
           /\ FiltersReturn(c) => th[c].result = "False"

\* a deny statement that passes sits after an allow statement that passes too
C1_Witness ==
    \E c \in DOMAIN th :
        /\ Done(c) /\ Len(raw) = 2 /\ th[c].result = "False"
        /\ Passes(c, Arg(1)) /\ Arg(1).effect = "allow"
        /\ Passes(c, Arg(2)) /\ Arg(2).effect = "deny"

\* C2: default deny.  A call returns deny whenever no statement passes all three
\* filters (and the filters return); for an empty list has_permission and
\* _evaluate_statements return deny, has_permission without calling a predicate.
C2_DefaultDeny ==
    \A c \in DOMAIN th :
        Done(c) =>
            /\ (FiltersReturn(c) /\ \A i \in 1..Len(raw) : ~Passes(c, Arg(i)))
                    => th[c].result = "False"
            /\ raw = <<>> => th[c].result = "False" /\ th[c].calls = <<>>

\* a non-empty list of which nothing passes, one statement failing on a condition
C2_Witness ==
    \E c \in DOMAIN th :
        /\ Done(c) /\ Len(raw) = 2 /\ th[c].result = "False" /\ th[c].calls # <<>>
        /\ \A i \in 1..Len(raw) : ~Passes(c, Arg(i))

\* C3: allow when some statement passes the three filters and every statement that
\* passes them has effect allow; statements that fail a filter change nothing.
C3_AllowIfMatchedAndNoneDenies ==
    \A c \in DOMAIN th :
        ( /\ Done(c) /\ FiltersReturn(c)
          /\ \E i \in 1..Len(raw) : Passes(c, Arg(i))
          /\ \A i \in 1..Len(raw) : Passes(c, Arg(i)) => Arg(i).effect = "allow" )
        => th[c].result = "True"

\* an allow statement passes while a deny statement fails a filter
C3_Witness ==
    \E c \in DOMAIN th :
        /\ Done(c) /\ th[c].result = "True"
        /\ \E i, k \in 1..Len(raw) :
            /\ Passes(c, Arg(i))
            /\ ~Passes(c, Arg(k)) /\ Arg(k).effect = "deny"

\* C4: normalization leaves the caller's data unchanged.  After a call returns,
\* every statement record has the principal, action and condition it had before.
C4_CallerDataUnchanged ==
    \A c \in DOMAIN th : Done(c) => statements = raw

\* the name of the condition is no attribute of the policy
UnknownName(cond) == Split1(cond.s, ":")[1] \notin DOMAIN policy

\* the condition names a predicate that answers this call with something not a bool
ReturnsNonBool(cond) ==
    /\ ~UnknownName(cond)
    /\ CondOutcome(cond).called
    /\ policy[Split1(cond.s, ":")[1]].returns \notin {"True", "False", "arg_is_owner"}

\* the evaluator gets to condition j of statement i
Evaluated(c, i, j) ==
    /\ PassesPA(c, Arg(i))
    /\ j \in 1..Len(Conds(Arg(i)))
    /\ TrueBefore(Arg(i), j)
    /\ \A k \in 1..(i - 1) : ~Raises(c, Arg(k))

-----------------------------------------------------------------------------
(* The three filters, each called on its own with normalized statements     *)

InsertAt(seq, pos, x) == SubSeq(seq, 1, pos - 1) \o <<x>> \o SubSeq(seq, pos, Len(seq))

\* lists of at most MaxStatements statements: one statement of S, at any place
\* among statements of Fillers
ListsAround(S, Fillers) ==
    UNION {{InsertAt(rest, pos, st) : pos \in 1..(Len(rest) + 1), st \in S} :
                rest \in SeqsOf(Fillers, 0, MaxStatements - 1)}

SeqRange(seq) == {seq[i] : i \in DOMAIN seq}

\* a filter called on its own returns the list it built (or raises)
Filtered(f, op, action, matched, calls, exc) ==
    Returned(f, op, action, [matched |-> matched, calls |-> calls, result |-> exc])

Users == {AnonymousUser, User5, User79, OidcUser}

(* SpecPrincipal: _get_statements_matching_principal                       *)

PrincipalPatterns ==
    {"*", "authenticated", "anonymous", "id:5", "id:79", "group:cooks", "group:dev"}
PrincipalStatements ==
    {Statement(StrList(ps), StrList(<<"create">>), List(<<>>), "allow") :
        ps \in SeqsOf(PrincipalPatterns, 1, MaxPatterns)}
PrincipalFillers ==
    {Statement(StrList(<<"*">>), StrList(<<"list">>), List(<<>>), "deny"),
     Statement(StrList(<<"id:900">>), StrList(<<"vote">>), List(<<>>), "deny")}

InitPrincipal ==
    /\ statements \in ListsAround(PrincipalStatements, PrincipalFillers)
    /\ raw = statements
    /\ policy = TestPolicy
    /\ th \in [{1} -> {Frame(FakeRequest(u, "GET"), FakeViewSet("create")) : u \in Users}]

MatchPrincipal(c) ==
    /\ th[c].pc = "start"
    /\ th' = [th EXCEPT ![c] =
                Filtered(@, "_get_statements_matching_principal", "",
                         _get_statements_matching_principal(th[c].request, statements),
                         <<>>, "")]
    /\ UNCHANGED <<statements, raw, policy>>

NextPrincipal == \E c \in DOMAIN th : MatchPrincipal(c)

SpecPrincipal == InitPrincipal /\ [][NextPrincipal]_vars

(* SpecAction: _get_statements_matching_action                             *)

ActionPatterns == {"create", "list", "*", "<safe_methods>"}
ActionStatements ==
    {Statement(StrList(<<"*">>), StrList(as), List(<<>>), "allow") :
        as \in SeqsOf(ActionPatterns, 1, MaxPatterns)}
ActionFillers ==
    {Statement(StrList(<<"id:5">>), StrList(<<"*">>), List(<<>>), "deny"),
     Statement(StrList(<<"id:79">>), StrList(<<"vote">>), List(<<>>), "deny")}
Methods == {"GET", "HEAD", "OPTIONS", "POST", "DELETE"}
ActionArguments == {"create", "delete", "<safe_methods>"}

InitAction ==
    /\ statements \in ListsAround(ActionStatements, ActionFillers)
    /\ raw = statements
    /\ policy = TestPolicy
    /\ th \in [{1} -> {Frame(FakeRequest(User5, m), FakeViewSet("create")) : m \in Methods}]

MatchAction(c) ==
    /\ th[c].pc = "start"
    /\ \E action \in ActionArguments :
        th' = [th EXCEPT ![c] =
                Filtered(@, "_get_statements_matching_action", action,
                         _get_statements_matching_action(th[c].request, action, statements),
                         <<>>, "")]
    /\ UNCHANGED <<statements, raw, policy>>

NextAction == \E c \in DOMAIN th : MatchAction(c)

SpecAction == InitAction /\ [][NextAction]_vars

(* SpecCondition: _get_statements_matching_context_conditions              *)

ConditionExpressions ==
    {"is_sunny", "is_cloudy", "user_is:owner", "user_is:staff", "is_rainy", "id"}
ConditionStatements ==
    {Statement(StrList(<<"*">>), StrList(<<"create">>), StrList(cs), "allow") :
        cs \in SeqsOf(ConditionExpressions, 0, MaxConditions)}
ConditionFillers ==
    {Statement(StrList(<<"id:1">>), StrList(<<"create">>), List(<<>>), "deny"),
     Statement(StrList(<<"id:3">>), StrList(<<"create">>), StrList(<<"is_cloudy">>), "deny")}

InitCondition ==
    /\ statements \in ListsAround(ConditionStatements, ConditionFillers)
    /\ raw = statements
    /\ policy \in {TestPolicy, YupPolicy}
    /\ th \in [{1} -> {Frame(FakeRequest(User5, "GET"), FakeViewSet("create"))}]

MatchConditions(c) ==
    /\ th[c].pc = "start"
    /\ LET out == _get_statements_matching_context_conditions(policy, statements)
       IN  th' = [th EXCEPT ![c] =
                    Filtered(@, "_get_statements_matching_context_conditions", "create",
                             out.matched, out.calls, out.exc)]
    /\ UNCHANGED <<statements, raw, policy>>

NextCondition == \E c \in DOMAIN th : MatchConditions(c)

SpecCondition == InitCondition /\ [][NextCondition]_vars

-----------------------------------------------------------------------------
(* C6, C7: the principal filter                                            *)

\* the requester as the claims describe it: identity, anonymous flag, group set
Requester(user) ==
    [identity |-> PyStr(UserId(user)),
     anonymous |-> user.is_anonymous,
     groups |-> SeqRange(get_user_group_values(user))]

\* the principal patterns of a normalized statement
Patterns(st) == {st.principal.l[k].s : k \in 1..Len(st.principal.l)}

\* the precedence of C6: the first applicable rule decides
RuleSaysMatch(rq, P) ==
    IF "*" \in P THEN TRUE
    ELSE IF "authenticated" \in P THEN ~rq.anonymous
    ELSE IF "anonymous" \in P THEN rq.anonymous
    ELSE IF ("id:" \o rq.identity) \in P THEN TRUE
    ELSE \E g \in rq.groups : ("group:" \o g) \in P

PrincipalCallDone(c) ==
    Done(c) /\ th[c].op = "_get_statements_matching_principal"

\* C6: principal matching follows the listed precedence.  The filter keeps a
\* statement exactly when the first applicable rule of (1) '*', (2) 'authenticated',
\* (3) 'anonymous', (4) 'id:<identity>', (5) 'group:<a group of the requester>' says
\* match, and the kept statements are in their original relative order.
C6_PrincipalPrecedence ==
    \A c \in DOMAIN th :
        PrincipalCallDone(c) =>
            th[c].matched =
                SelectSeq(statements,
                          LAMBDA st : RuleSaysMatch(Requester(th[c].request.user), Patterns(st)))

\* two different statements are kept, one of them by rule (5) alone
C6_Witness ==
    \E c \in DOMAIN th :
        /\ PrincipalCallDone(c)
        /\ Len(th[c].matched) = 2 /\ th[c].matched[1] # th[c].matched[2]
        /\ \E i \in 1..2 :
            /\ Patterns(th[c].matched[i]) \subseteq {"group:cooks", "group:dev", "id:79"}
            /\ ("id:" \o Requester(th[c].request.user).identity) \notin Patterns(th[c].matched[i])

\* the pattern, were it the only one of its statement, matches the requester
MatchesAlone(p, rq) ==
    \/ p = "*"
    \/ p = "authenticated" /\ ~rq.anonymous
    \/ p = "anonymous" /\ rq.anonymous
    \/ p = "id:" \o rq.identity
    \/ \E g \in rq.groups : p = "group:" \o g

Kept(c, st) == st \in SeqRange(th[c].matched)

\* C7 as stated: principal patterns within one statement are OR'd.  A statement
\* passes the principal filter exactly when at least one of its patterns, taken
\* alone, matches the requester, also when 'authenticated' or 'anonymous' is listed.
C7_PatternsAreOred ==
    \A c \in DOMAIN th :
        PrincipalCallDone(c) =>
            \A i \in 1..Len(statements) :
                Kept(c, statements[i])
                <=> \E p \in Patterns(statements[i]) :
                        MatchesAlone(p, Requester(th[c].request.user))

\* C7 amended: the patterns are OR'd when the list holds '*' or holds neither
\* 'authenticated' nor 'anonymous'.  Otherwise the id: and group: patterns are not
\* consulted: the statement passes iff the requester is not anonymous when
\* 'authenticated' is listed, else iff the requester is anonymous.
C7_OredUnlessAuthenticatedOrAnonymous ==
    \A c \in DOMAIN th :
        PrincipalCallDone(c) =>
            \A i \in 1..Len(statements) :
                IF "*" \in Patterns(statements[i])
                   \/ ( /\ "authenticated" \notin Patterns(statements[i])
                        /\ "anonymous" \notin Patterns(statements[i]) )
                THEN Kept(c, statements[i])
                     <=> \E p \in Patterns(statements[i]) :
                            MatchesAlone(p, Requester(th[c].request.user))
                ELSE IF "authenticated" \in Patterns(statements[i])
                THEN Kept(c, statements[i]) <=> ~th[c].request.user.is_anonymous
                ELSE Kept(c, statements[i]) <=> th[c].request.user.is_anonymous

\* a statement listing 'anonymous' and the requester's own id is dropped
C7_Witness ==
    \E c \in DOMAIN th :
        /\ PrincipalCallDone(c)
        /\ \E i \in 1..Len(statements) :
            /\ Patterns(statements[i]) = {"anonymous", "id:5"}
            /\ Requester(th[c].request.user).identity = "5"
            /\ ~Kept(c, statements[i])

-----------------------------------------------------------------------------
(* C8: the action filter                                                   *)

ActionCallDone(c) == Done(c) /\ th[c].op = "_get_statements_matching_action"

OnlySafeMethods(st) == st.action = StrList(<<"<safe_methods>">>)

\* C8 as stated: a statement whose only action pattern is '<safe_methods>' is kept
\* iff the request method is GET, HEAD or OPTIONS, for every action name.
C8_SafeMethodsShorthand ==
    \A c \in DOMAIN th :
        ActionCallDone(c) =>
            \A i \in 1..Len(statements) :
                OnlySafeMethods(statements[i])
                => (Kept(c, statements[i])
                    <=> th[c].request.method \in {"GET", "HEAD", "OPTIONS"})

\* C8 amended: the same, for every action name other than the text
\* '<safe_methods>' itself (that name is found "in" the statement's action list).
C8_SafeMethodsShorthandForOtherNames ==
    \A c \in DOMAIN th :
        (ActionCallDone(c) /\ th[c].action # "<safe_methods>") =>
            \A i \in 1..Len(statements) :
                OnlySafeMethods(statements[i])
                => (Kept(c, statements[i])
                    <=> th[c].request.method \in {"GET", "HEAD", "OPTIONS"})

\* the shorthand keeps a statement for an action it does not name
C8_Witness ==
    \E c \in DOMAIN th :
        /\ ActionCallDone(c) /\ th[c].action = "delete" /\ th[c].request.method = "OPTIONS"
        /\ \E i \in 1..Len(statements) :
            OnlySafeMethods(statements[i]) /\ Kept(c, statements[i])

-----------------------------------------------------------------------------
(* C10: the condition filter                                               *)

ConditionCallDone(c) ==
    Done(c) /\ th[c].op = "_get_statements_matching_context_conditions"

Min(a, b) == IF a < b THEN a ELSE b

\* the index of the first condition of the statement that does not hold, one past
\* the last condition if all hold
FirstFalse(st) ==
    IF \E j \in 1..Len(Conds(st)) : ~CondTrue(Conds(st)[j])
    THEN CHOOSE j \in 1..Len(Conds(st)) :
            ~CondTrue(Conds(st)[j]) /\ TrueBefore(st, j)
    ELSE Len(Conds(st)) + 1

\* the predicate calls made for statement k, in the order they were made
CallsOf(c, k) == SelectSeq(th[c].calls, LAMBDA e : e.stmt = k)

\* C10: condition evaluation order and short-circuit.  When the filter returns,
\* the calls made for each statement are those of its conditions in list order up
\* to and including the first that returns false, and none after it; the statement
\* is kept iff every condition returned true (so always when it has none); calls
\* for a later statement follow those for an earlier one, excluded or not.
C10_ConditionOrderAndShortCircuit ==
    \A c \in DOMAIN th :
        ConditionCallDone(c) =>
            /\ \A m, n \in 1..Len(th[c].calls) :
                (m < n /\ th[c].calls[m].stmt = th[c].calls[n].stmt)
                => th[c].calls[m].exc = "" /\ th[c].calls[m].ret
            /\ th[c].result = "" =>
                /\ th[c].matched =
                    SelectSeq(statements, LAMBDA st : FirstFalse(st) = Len(Conds(st)) + 1)
                /\ \A m, n \in 1..Len(th[c].calls) :
                    m < n => th[c].calls[m].stmt <= th[c].calls[n].stmt
                /\ \A k \in 1..Len(statements) :
                    /\ Len(CallsOf(c, k)) =
                            Min(FirstFalse(statements[k]), Len(Conds(statements[k])))
                    /\ \A j \in 1..Len(CallsOf(c, k)) :
                        /\ CallsOf(c, k)[j].cond = j
                        /\ CallsOf(c, k)[j].name =
                                Split1(Conds(statements[k])[j].s, ":")[1]

\* the first condition of statement 1 returns false and its second is not called,
\* statement 1 is dropped, and a condition of statement 2 is evaluated after it
C10_Witness ==
    \E c \in DOMAIN th :
        /\ ConditionCallDone(c) /\ th[c].result = ""
        /\ Len(statements) = 2 /\ Len(Conds(statements[1])) = 2
        /\ FirstFalse(statements[1]) = 1
        /\ CondTrue(Conds(statements[1])[2])
        /\ Len(CallsOf(c, 1)) = 1 /\ Len(CallsOf(c, 2)) = 1
        /\ ~Kept(c, statements[1])

-----------------------------------------------------------------------------
(* SpecThreads: two requests evaluated at once on the same policy class.    *)
(* Each call runs has_permission step by step; a step reads or writes one   *)
(* item of one statement dict of the shared list AccessPolicy.statements.   *)
(* The lists a call builds (matched) hold references to those dicts: here   *)
(* refs and inp are lists of indices into statements.                       *)

Fields == <<"principal", "action", "condition">>

FieldIndex(f) == CHOOSE k \in 1..3 : Fields[k] = f

ThreadStatements ==
    {Statement(p, Str("create"), c, e) :
        p \in {Str("*"), Str("id:5")}, c \in {Absent, Str("is_sunny")},
        e \in {"allow", "deny"}}

InitThreads ==
    /\ statements \in SeqsOf(ThreadStatements, 0, MaxStatements)
    /\ raw = statements
    /\ policy = TestPolicy
    /\ th = [c \in {1, 2} |-> Frame(FakeRequest(User5, "POST"), FakeViewSet("create"))]

Goto(c, pc) == th' = [th EXCEPT ![c].pc = pc]

\* lines 14-17: the action, the list, the test for an empty list
Enter(c) ==
    /\ th[c].pc = "start"
    /\ th' = [th EXCEPT ![c] =
                IF Len(get_policy_statements(statements)) = 0
                THEN [@ EXCEPT !.pc = "done", !.op = "has_permission",
                               !.action = _get_invoked_action(th[c].view), !.result = "False"]
                ELSE [@ EXCEPT !.pc = "test", !.op = "has_permission",
                               !.action = _get_invoked_action(th[c].view),
                               !.i = 1, !.field = "principal"]]
    /\ UNCHANGED <<statements, raw, policy>>

\* where _normalize_statements goes after field f of statement i is dealt with
AfterField(f, c) ==
    IF th[c].field # "condition"
    THEN [f EXCEPT !.pc = "test", !.field = Fields[FieldIndex(th[c].field) + 1]]
    ELSE IF th[c].i < Len(statements)
    THEN [f EXCEPT !.pc = "test", !.field = "principal", !.i = th[c].i + 1]
    ELSE [f EXCEPT !.pc = "principal", !.i = 1, !.field = "",
                   !.inp = [k \in 1..Len(statements) |-> k], !.refs = <<>>]

\* lines 64, 67, 70, 72: the test that decides whether the item is assigned
NormalizeTest(c) ==
    /\ th[c].pc = "test"
    /\ th' = [th EXCEPT ![c] =
                IF th[c].field = "condition" /\ statements[th[c].i].condition.t = "absent"
                THEN [@ EXCEPT !.pc = "default"]
                ELSE IF IsStr(statements[th[c].i][th[c].field])
                THEN [@ EXCEPT !.pc = "load"]
                ELSE AfterField(@, c)]
    /\ UNCHANGED <<statements, raw, policy>>

\* line 71: statement["condition"] = []
NormalizeDefault(c) ==
    /\ th[c].pc = "default"
    /\ statements' = [statements EXCEPT ![th[c].i].condition = List(<<>>)]
    /\ th' = [th EXCEPT ![c] = AfterField(@, c)]
    /\ UNCHANGED <<raw, policy>>

\* lines 65, 68, 73, right-hand side: the item is read and put in a new list
NormalizeLoad(c) ==
    /\ th[c].pc = "load"
    /\ th' = [th EXCEPT ![c].pc = "store",
                        ![c].tmp = List(<<statements[th[c].i][th[c].field]>>)]
    /\ UNCHANGED <<statements, raw, policy>>

\* lines 65, 68, 73: the item assignment
NormalizeStore(c) ==
    /\ th[c].pc = "store"
    /\ statements' = [statements EXCEPT ![th[c].i][th[c].field] = th[c].tmp]
    /\ th' = [th EXCEPT ![c] = AfterField([@ EXCEPT !.tmp = Absent], c)]
    /\ UNCHANGED <<raw, policy>>

\* the list built becomes the list the next filter goes through
NextFilter(f, pc, refs) ==
    IF f.i < Len(f.inp)
    THEN [f EXCEPT !.i = f.i + 1, !.refs = refs]
    ELSE [f EXCEPT !.pc = pc, !.i = 1, !.inp = refs, !.refs = <<>>]

\* lines 88-107, one statement
StepPrincipal(c) ==
    /\ th[c].pc = "principal"
    /\ th' = [th EXCEPT ![c] =
                NextFilter(@, "action",
                    IF PrincipalFound(th[c].request.user,
                                      statements[th[c].inp[th[c].i]].principal)
                    THEN Append(th[c].refs, th[c].inp[th[c].i]) ELSE th[c].refs)]
    /\ UNCHANGED <<statements, raw, policy>>

\* lines 121-128, one statement
StepAction(c) ==
    /\ th[c].pc = "action"
    /\ IF th[c].inp = <<>>
       THEN Goto(c, "conditions")
       ELSE th' = [th EXCEPT ![c] =
                NextFilter(@, "conditions",
                    IF ActionFound(th[c].request, th[c].action, statements[th[c].inp[th[c].i]])
                    THEN Append(th[c].refs, th[c].inp[th[c].i]) ELSE th[c].refs)]
    /\ UNCHANGED <<statements, raw, policy>>

\* lines 142-157, one statement, its predicates called; an exception ends the call
StepConditions(c) ==
    /\ th[c].pc = "conditions"
    /\ IF th[c].inp = <<>>
       THEN Goto(c, "resolve")
       ELSE LET r == ConditionStatement(policy, statements[th[c].inp[th[c].i]],
                                        th[c].inp[th[c].i], th[c].calls)
            IN  th' = [th EXCEPT ![c] =
                        IF r.exc # ""
                        THEN [@ EXCEPT !.pc = "done", !.calls = r.calls, !.result = r.exc]
                        ELSE NextFilter([@ EXCEPT !.calls = r.calls], "resolve",
                                IF r.keep THEN Append(th[c].refs, th[c].inp[th[c].i])
                                ELSE th[c].refs)]
    /\ UNCHANGED <<statements, raw, policy>>

\* lines 55-60
StepResolve(c) ==
    /\ th[c].pc = "resolve"
    /\ th' = [th EXCEPT ![c].pc = "done",
                        ![c].matched = [k \in 1..Len(th[c].inp) |-> statements[th[c].inp[k]]],
                        ![c].result =
                            Resolve([k \in 1..Len(th[c].inp) |-> statements[th[c].inp[k]]])]
    /\ UNCHANGED <<statements, raw, policy>>

NextThreads ==
    \/ \E c \in DOMAIN th : Enter(c)
    \/ \E c \in DOMAIN th : NormalizeTest(c)
    \/ \E c \in DOMAIN th : NormalizeDefault(c)
    \/ \E c \in DOMAIN th : NormalizeLoad(c)
    \/ \E c \in DOMAIN th : NormalizeStore(c)
    \/ \E c \in DOMAIN th : StepPrincipal(c)
    \/ \E c \in DOMAIN th : StepAction(c)
    \/ \E c \in DOMAIN th : StepConditions(c)
    \/ \E c \in DOMAIN th : StepResolve(c)

SpecThreads == InitThreads /\ [][NextThreads]_vars

\* every element of the list is a str
Flat(v) == v.t = "list" /\ \A k \in 1..Len(v.l) : v.l[k].t = "str"

\* the decision the call returns when it runs alone on the policy as written
AloneResult(c) == has_permission(policy, raw, th[c].request, th[c].view).result

\* C5: concurrent evaluations are independent without locking.  When two
\* evaluations of the same policy run with their steps interleaved, each returns
\* the decision it returns when run alone, and every statement ends with principal,
\* action and condition as flat lists of strings.
C5_ConcurrentEvaluationsIndependent ==
    (\A c \in DOMAIN th : Done(c)) =>
        /\ \A c \in DOMAIN th : th[c].result = AloneResult(c)
        /\ \A i \in 1..Len(statements) :
            /\ Flat(statements[i].principal)
            /\ Flat(statements[i].action)
            /\ Flat(statements[i].condition)

\* The steps agree with the handler taken whole: a call that runs while the other
\* has not started returns what has_permission returns.
StepsAgreeWithHandler ==
    \A c \in DOMAIN th :
        (Done(c) /\ \A d \in DOMAIN th \ {c} : th[d].pc = "start")
        => th[c].result = AloneResult(c)

====
